---- MODULE Spec2Model ----
(***************************************************************************)
(* Render-event tracking and notification pipeline of laststance/re-render *)
(*                                                                         *)
(*   useRenderTracker (hooks/useRenderTracker.ts)  - one hook instance per *)
(*       tracked unit: classification, committed reason, coalesced         *)
(*       emission through setTimeout(0), in-flight flag.                   *)
(*   renderTracker slice, toast slice, listener middleware - the store,    *)
(*       the 300 ms batching dispatcher and the notification queue.        *)
(*                                                                         *)
(* Scheduling.  Everything runs on one thread.  setTimeout(..., 0) calls   *)
(* are kept in one FIFO queue (timers with equal delay run in the order    *)
(* they were set).  The 300 ms flush timer is a real-time timer that may   *)
(* fire between any two tasks.  A store update made by recordRender is     *)
(* observed by the page (useSelector), which re-renders the tracked units  *)
(* below it before the next task runs; with createRoot that synchronous    *)
(* re-render is flushed right after the running timer callback returns,    *)
(* that is after the callback has set its flag-clear timer.                *)
(***************************************************************************)
EXTENDS Integers, Sequences, FiniteSets, TLC

(***************************************************************************)
(* Bounds of the model                                                     *)
(***************************************************************************)
\* number of user-caused re-renders (after the mount) that are explored
MaxUpdates == 1
\* number of events the units may hand to the store in one behaviour
MaxEvents == 7
\* number of notifications that may be created in one behaviour
MaxNotifications == 2
\* number of actions wrapped by withSuppressToasts in one behaviour
MaxSuppress == 1
\* notifications appended directly to the notification store
MaxAppends == 11
\* other direct operations on the notification store
MaxToastOps == 1
\* auto-dismiss timers that fire
MaxExpiries == 1
\* notifications shown, and clicks on their expand buttons
MaxShown == 3
MaxToggles == 4
\* runs of the page-change effect of ExamplePage
MaxMounts == 2

(***************************************************************************)
(* Tracked units of the page: three hook instances; instances 1 and 2      *)
(* carry the same componentName.  Instances 1 and 3 are re-rendered when   *)
(* the page re-renders (not memoized); instance 2 is memoized.             *)
(***************************************************************************)
Trackers == {1, 2, 3}
componentName == <<"A", "A", "B">>
Names == {"A", "B"}
TreeOrder == <<1, 2, 3>>
CascadeUnits == {1, 3}

(***************************************************************************)
(* JavaScript values.  Every value is a tagged record so that values of    *)
(* different kinds can be compared.                                        *)
(***************************************************************************)
Undefined == [type |-> "undefined"]
Null == [type |-> "null"]
Num(n) == [type |-> "number", n |-> n]
\* an object literal: its own enumerable properties in insertion order
Obj(entries) == [type |-> "object", entries |-> entries]
\* an object value held by a property: ref tells objects of equal content apart
Ref(n) == [type |-> "object", ref |-> n, entries |-> <<>>]
\* TrackableDeps: { props?, state? }
Deps(p, s) == [type |-> "deps", props |-> p, state |-> s]

\* a variant that takes two objects of equal content for the same value
ObjectIs_ByContent(a, b) ==
    \/ a = b
    \/ a.type = "object" /\ b.type = "object" /\ a.entries = b.entries

\* Object.is on the values of the model (primitives and references)
ObjectIs(a, b) == a = b

\* Object.keys(o)
ObjectKeys(o) == [i \in 1..Len(o.entries) |-> o.entries[i].k]

\* o[key]: the property value, undefined when the object has no such key
Get(o, key) ==
    IF \E i \in 1..Len(o.entries) : o.entries[i].k = key
    THEN o.entries[CHOOSE i \in 1..Len(o.entries) : o.entries[i].k = key].v
    ELSE Undefined

RECURSIVE Dedup(_, _)
\* new Set([...]) iteration order: first occurrences, in order
Dedup(s, seen) ==
    IF s = <<>> THEN <<>>
    ELSE IF Head(s) \in seen THEN Dedup(Tail(s), seen)
         ELSE <<Head(s)>> \o Dedup(Tail(s), seen \cup {Head(s)})

AllKeys(prev, current) == Dedup(ObjectKeys(prev) \o ObjectKeys(current), {})

getValueType(value) ==
    IF value = Undefined THEN "undefined"
    ELSE IF value = Null THEN "primitive"
    ELSE IF value.type = "object" THEN "object"
    ELSE "primitive"

\* serializeValue on undefined, null and numbers (String(value))
serializeValue(value) ==
    IF value = Undefined THEN "undefined"
    ELSE IF value = Null THEN "null"
    ELSE IF value.type = "number" THEN ToString(value.n)
    ELSE "{}"

\* a variant of getChangedKeys in which an absent earlier snapshot makes
\* every key of the current one a changed key
getChangedKeys_AbsentIsChange(prev, current) ==
    IF current = Undefined THEN <<>>
    ELSE IF prev = Undefined THEN ObjectKeys(current)
    ELSE SelectSeq(AllKeys(prev, current),
                   LAMBDA key : ~ObjectIs(Get(prev, key), Get(current, key)))

getChangedKeys(prev, current) ==
    IF prev = Undefined \/ current = Undefined THEN <<>>
    ELSE SelectSeq(AllKeys(prev, current),
                   LAMBDA key : ~ObjectIs(Get(prev, key), Get(current, key)))

getChangedValues(prev, current) ==
    IF prev = Undefined \/ current = Undefined THEN <<>>
    ELSE LET keys == getChangedKeys(prev, current)
         IN  [i \in 1..Len(keys) |->
                [key |-> keys[i],
                 previousValue |-> serializeValue(Get(prev, keys[i])),
                 currentValue |-> serializeValue(Get(current, keys[i])),
                 valueType |-> getValueType(Get(current, keys[i]))]]

\* a variant that looks at the props before the state
determineRenderReason_PropsFirst(isInitialRender, changedProps, changedState, forceUpdate) ==
    IF isInitialRender THEN "initial"
    ELSE IF forceUpdate THEN "force-update"
    ELSE IF Len(changedProps) > 0 THEN "props-change"
    ELSE IF Len(changedState) > 0 THEN "state-change"
    ELSE "parent-rerender"

determineRenderReason(isInitialRender, changedProps, changedState, forceUpdate) ==
    IF isInitialRender THEN "initial"
    ELSE IF forceUpdate THEN "force-update"
    ELSE IF Len(changedState) > 0 THEN "state-change"
    ELSE IF Len(changedProps) > 0 THEN "props-change"
    ELSE "parent-rerender"

(***************************************************************************)
(* Inputs: the deps a unit passes to the hook.                             *)
(***************************************************************************)
D00 == Deps(Obj(<<[k |-> "p", v |-> Num(0)]>>), Obj(<<[k |-> "count", v |-> Num(0)]>>))
D10 == Deps(Obj(<<[k |-> "p", v |-> Num(1)]>>), Obj(<<[k |-> "count", v |-> Num(0)]>>))
D01 == Deps(Obj(<<[k |-> "p", v |-> Num(0)]>>), Obj(<<[k |-> "count", v |-> Num(1)]>>))
\* unit 1 owns state and receives props; unit 2 (memoized) re-renders when
\* its prop changes; unit 3 re-renders when its owner does
UpdateDeps(t) ==
    CASE t = 1 -> {D00, D10, D01}
      [] t = 2 -> {D10}
      [] t = 3 -> {D00}

VARIABLES
    hook,          \* per hook instance: the refs of useRenderTracker
    timers,        \* FIFO queue of pending setTimeout(..., 0) callbacks
    cascadeTodo,   \* units still to be re-rendered by the running store cascade
    renderTracker, \* state.renderTracker (renderTracker slice)
    toast,         \* state.toast (toast slice)
    buffer,        \* listener middleware: module-level buffer
    flushTimer,    \* listener middleware: module-level flushTimer (armed or not)
    nextId,        \* source of unique ids (Date.now() / Math.random())
    strictMode,    \* whether the runtime double-invokes render functions
    mounted,       \* whether the page has mounted its units
    updates,       \* history: number of user-caused re-renders so far
    emitted,       \* history: number of events handed to the store so far
    begins,        \* history: number of beginSuppressToasts calls so far
    emittedWhileSuppressed, \* history: ids recorded while suppressToasts was set
    heldUnderSuppression,   \* history: ids buffered or received while suppressToasts was set
    toastView,     \* ToastContainer: timerRef of every mounted Toast, and the
                   \* armed auto-dismiss timers in the order they were set
    cascadeCause,  \* history: unit whose emission caused the running cascade (0: none)
    cascadeIds,    \* history: ids of events scheduled by cascade invocations of
                   \* other units while the emitting unit's flag was set
    resetAt,       \* history: the values of updates and begins right after the last reset
    expired,       \* history: notifications removed by their auto-dismiss timer
    ops,           \* history: number of direct operations on the notification store
    tally,         \* history, per unit: the store's number before the unit's first
                   \* update and the number of its updates since
    call,          \* a call of a pure function: its arguments and its result
    page           \* ExamplePage: whether the 100 ms timer of its page-change
                   \* effect is armed, and the number of runs of that effect

vars == <<hook, timers, cascadeTodo, renderTracker, toast, buffer, flushTimer,
          nextId, strictMode, mounted, updates, emitted, begins,
          emittedWhileSuppressed, heldUnderSuppression, toastView,
          cascadeCause, cascadeIds, resetAt, expired, ops, tally, call, page>>

\* the variables of the notification view and of the pure-function calls
viewVars == <<toastView, expired, ops>>
callVars == <<call>>

NullReason == "null"
Reasons == {"initial", "props-change", "state-change", "context-change",
            "parent-rerender", "force-update"}

\* the reset button has not been used
NoReset == [updates |-> -1, begins |-> -1]

\* the unit has not been updated / an update came before the unit was idle
NoTally == [base |-> -1, k |-> 0]
VoidTally == [base |-> -2, k |-> 0]

\* no pure function has been called
NoCall == [fn |-> "none"]

\* no Toast is mounted
InitView == [timerRef |-> <<>>, timers |-> <<>>]

InitHook ==
    [renderCountRef |-> 0,
     meaningfulCountRef |-> 0,
     prevDepsRef |-> Undefined,
     pendingInfoRef |-> Null,
     timerRef |-> FALSE,
     dispatchInFlightRef |-> FALSE,
     committedReasonRef |-> NullReason,
     committedChangesRef |-> Null,
     renderInfo |-> Null]

Init ==
    /\ hook = [t \in Trackers |-> InitHook]
    /\ timers = <<>>
    /\ cascadeTodo = <<>>
    /\ renderTracker = [renderHistory |-> [n \in Names |-> <<>>],
                        renderCounts |-> [n \in Names |-> 0],
                        renderCountsByReason |-> [n \in Names |-> [r \in Reasons |-> 0]],
                        suppressToasts |-> FALSE]
    /\ toast = [toasts |-> <<>>, maxToasts |-> 10]
    /\ buffer = <<>>
    /\ flushTimer = FALSE
    /\ nextId = 1
    /\ strictMode \in BOOLEAN
    /\ mounted = FALSE
    /\ updates = 0
    /\ emitted = 0
    /\ begins = 0
    /\ emittedWhileSuppressed = {}
    /\ heldUnderSuppression = {}
    /\ toastView = InitView
    /\ cascadeCause = 0
    /\ cascadeIds = {}
    /\ resetAt = NoReset
    /\ expired = {}
    /\ ops = 0
    /\ tally = [t \in Trackers |-> NoTally]
    /\ call = NoCall
    /\ page = [timer |-> FALSE, runs |-> 0]

(***************************************************************************)
(* useRenderTracker: the render phase (function body) of one invocation    *)
(***************************************************************************)
\* prevDepsRef.current?.props / deps?.props
OptProps(d) == IF d = Undefined THEN Undefined ELSE d.props
OptState(d) == IF d = Undefined THEN Undefined ELSE d.state

\* a variant that commits every fresh reason
ShouldCommit_Always(rawReason, committedReason) == TRUE

\* the StrictMode double-render rule: commit the fresh reason unless it is
\* parent-rerender and a reason is already committed
ShouldCommit(rawReason, committedReason) ==
    rawReason # "parent-rerender" \/ committedReason = NullReason

RenderBody(h, name, deps, id) ==
    LET renderCount == h.renderCountRef + 1
        isInitialRender == renderCount = 1
        changedProps == getChangedKeys(OptProps(h.prevDepsRef), OptProps(deps))
        changedState == getChangedKeys(OptState(h.prevDepsRef), OptState(deps))
        propChanges == getChangedValues(OptProps(h.prevDepsRef), OptProps(deps))
        stateChanges == getChangedValues(OptState(h.prevDepsRef), OptState(deps))
        rawReason == determineRenderReason(isInitialRender, changedProps,
                                           changedState, FALSE)
        rawChanges == [changedProps |-> changedProps, changedState |-> changedState,
                       propChanges |-> propChanges, stateChanges |-> stateChanges]
        commit == ShouldCommit(rawReason, h.committedReasonRef)
        reason == IF commit THEN rawReason ELSE h.committedReasonRef
        changes == IF commit THEN rawChanges ELSE h.committedChangesRef
    IN  [h EXCEPT
           !.renderCountRef = renderCount,
           !.committedReasonRef = reason,
           !.committedChangesRef = changes,
           !.prevDepsRef = IF deps = Undefined THEN Undefined
                           ELSE Deps(deps.props, deps.state),
           !.renderInfo = [id |-> id,
                           componentName |-> name,
                           renderCount |-> h.meaningfulCountRef,
                           reason |-> reason,
                           changedProps |-> changes.changedProps,
                           changedState |-> changes.changedState,
                           propChanges |-> changes.propChanges,
                           stateChanges |-> changes.stateChanges]]

\* number of times the runtime calls the function body for one update
BodyCalls == IF strictMode THEN 2 ELSE 1

\* the render phase of one update: the body, replayed once under StrictMode
RenderPhase(h, name, deps, id) ==
    IF strictMode
    THEN RenderBody(RenderBody(h, name, deps, id), name, deps, id + 1)
    ELSE RenderBody(h, name, deps, id)

(***************************************************************************)
(* useRenderTracker: the dispatch effect, run when the render commits      *)
(***************************************************************************)
\* the early return of the effect
EffectSkips(h) ==
    h.dispatchInFlightRef /\ h.renderInfo.reason = "parent-rerender"

EmitTask(t) == [kind |-> "emit", t |-> t]
ClearTask(t) == [kind |-> "clear", t |-> t]

EmitQueued(t) == \E i \in DOMAIN timers : timers[i] = EmitTask(t)
ClearQueued(t) == \E i \in DOMAIN timers : timers[i] = ClearTask(t)

\* unit t has no emission queued, no flag-clear timer queued and its flag
\* is clear
Idle(t) ==
    /\ ~hook[t].dispatchInFlightRef
    /\ ~hook[t].timerRef
    /\ ~EmitQueued(t)
    /\ ~ClearQueued(t)

\* clearTimeout(timerRef.current)
ClearTimeout(q, t) == SelectSeq(q, LAMBDA task : task # EmitTask(t))

\* a variant that counts when the emission is scheduled
EffectHook_CountsOnSchedule(h) ==
    IF EffectSkips(h) THEN h
    ELSE [h EXCEPT !.pendingInfoRef = h.renderInfo,
                   !.meaningfulCountRef = @ + 1,
                   !.committedReasonRef = NullReason,
                   !.committedChangesRef = Null,
                   !.dispatchInFlightRef = TRUE,
                   !.timerRef = TRUE]

EffectHook(h) ==
    IF EffectSkips(h) THEN h
    ELSE [h EXCEPT !.pendingInfoRef = h.renderInfo,
                   !.committedReasonRef = NullReason,
                   !.committedChangesRef = Null,
                   !.dispatchInFlightRef = TRUE,
                   !.timerRef = TRUE]

\* a variant that leaves an earlier emission timer of the unit armed
EffectTimers_KeepsEarlier(q, t, h) ==
    IF EffectSkips(h) THEN q ELSE Append(q, EmitTask(t))

EffectTimers(q, t, h) ==
    IF EffectSkips(h) THEN q
    ELSE Append(IF h.timerRef THEN ClearTimeout(q, t) ELSE q, EmitTask(t))

\* one committed invocation of unit t with the given deps
Invoke(t, deps) ==
    LET h == RenderPhase(hook[t], componentName[t], deps, nextId)
    IN  /\ hook' = [hook EXCEPT ![t] = EffectHook(h)]
        /\ timers' = EffectTimers(timers, t, h)
        /\ nextId' = nextId + BodyCalls

(***************************************************************************)
(* The page renders                                                        *)
(***************************************************************************)
\* first render of the page: every unit is invoked once, in tree order
MountAll ==
    /\ ~mounted
    /\ mounted' = TRUE
    /\ LET h(t) == RenderPhase(hook[t], componentName[t], D00,
                               nextId + (t - 1) * BodyCalls)
       IN  /\ hook' = [t \in Trackers |-> EffectHook(h(t))]
           /\ timers' = EffectTimers(EffectTimers(EffectTimers(timers,
                            1, h(1)), 2, h(2)), 3, h(3))
    /\ nextId' = nextId + 3 * BodyCalls
    /\ UNCHANGED <<cascadeTodo, renderTracker, toast, buffer, flushTimer,
                   strictMode, updates, emitted, begins, emittedWhileSuppressed,
                   heldUnderSuppression, cascadeCause, cascadeIds, resetAt,
                   page>>
    /\ UNCHANGED <<viewVars, callVars, tally>>

\* a user-caused re-render of unit t (new props, new state, or its owner
\* re-rendered it with the same deps)
UpdateWithin(t, deps, limit) ==
    /\ mounted
    /\ cascadeTodo = <<>>
    /\ updates < limit
    /\ updates' = updates + 1
    /\ Invoke(t, deps)
    /\ UNCHANGED <<cascadeTodo, renderTracker, toast, buffer, flushTimer,
                   strictMode, mounted, emitted, begins, emittedWhileSuppressed,
                   heldUnderSuppression, cascadeCause, cascadeIds, resetAt,
                   page>>
    /\ UNCHANGED <<viewVars, callVars>>

Update(t, deps) == UpdateWithin(t, deps, MaxUpdates) /\ UNCHANGED tally

\* the tally of unit t after one more update of it
Tallied(t) ==
    [tally EXCEPT ![t] =
       IF ~Idle(t) \/ @ = VoidTally THEN VoidTally
       ELSE IF @ = NoTally
            THEN [base |-> renderTracker.renderCounts[componentName[t]], k |-> 1]
            ELSE [@ EXCEPT !.k = @ + 1]]

\* the same, with room for one more update and with the tally kept (units
\* only, see SpecUnits)
UpdateMore(t, deps) == UpdateWithin(t, deps, MaxUpdates + 1) /\ tally' = Tallied(t)

\* the store changed: the page re-renders the next unit below it, with the
\* deps that unit had at its last render
CascadeRender ==
    /\ cascadeTodo # <<>>
    /\ Invoke(Head(cascadeTodo), hook[Head(cascadeTodo)].prevDepsRef)
    /\ cascadeTodo' = Tail(cascadeTodo)
    /\ cascadeCause' = IF Tail(cascadeTodo) = <<>> THEN 0 ELSE cascadeCause
    /\ LET u == Head(cascadeTodo)
       IN  cascadeIds' =
             IF /\ cascadeCause \in Trackers \ {u}
                /\ hook[cascadeCause].dispatchInFlightRef
                /\ hook'[u].pendingInfoRef # Null
                /\ hook'[u].pendingInfoRef.id >= nextId
             THEN cascadeIds \cup {hook'[u].pendingInfoRef.id}
             ELSE cascadeIds
    /\ UNCHANGED <<renderTracker, toast, buffer, flushTimer, strictMode,
                   mounted, updates, emitted, begins, emittedWhileSuppressed,
                   heldUnderSuppression, resetAt, page>>
    /\ UNCHANGED <<viewVars, callVars, tally>>

(***************************************************************************)
(* renderTracker slice                                                     *)
(***************************************************************************)
HistoryLimit == 100

recordRender(state, payload) ==
    LET name == payload.componentName
        pushed == Append(state.renderHistory[name], payload)
        history == IF Len(pushed) > HistoryLimit THEN Tail(pushed) ELSE pushed
    IN  [state EXCEPT
           !.renderHistory[name] = history,
           !.renderCounts[name] = payload.renderCount,
           !.renderCountsByReason[name][payload.reason] = @ + 1]

\* a variant that leaves the sequence number map as it is
clearRenderHistory_KeepsCounts(state) ==
    [state EXCEPT !.renderHistory = [n \in Names |-> <<>>],
                  !.renderCountsByReason = [n \in Names |-> [r \in Reasons |-> 0]]]

\* the three maps become {}: a name without an entry reads as no history
\* and a count of 0
clearRenderHistory(state) ==
    [state EXCEPT !.renderHistory = [n \in Names |-> <<>>],
                  !.renderCounts = [n \in Names |-> 0],
                  !.renderCountsByReason = [n \in Names |-> [r \in Reasons |-> 0]]]

beginSuppressToasts(state) == [state EXCEPT !.suppressToasts = TRUE]
\* a variant of a counting gate: an end leaves the gate as it is
endSuppressToasts_Keeps(state) == state
endSuppressToasts(state) == [state EXCEPT !.suppressToasts = FALSE]

(***************************************************************************)
(* toast slice                                                             *)
(***************************************************************************)
\* REASON_PRIORITY (data/renderReasonLabels): lower number = shown first
REASON_PRIORITY ==
    [r \in Reasons |->
       CASE r = "initial" -> 0
         [] r = "force-update" -> 1
         [] r = "state-change" -> 2
         [] r = "props-change" -> 3
         [] r = "context-change" -> 3
         [] r = "parent-rerender" -> 4]

RECURSIVE InsertByPriority_Unstable(_, _)
\* a variant that puts e in front of the elements of its own rank
InsertByPriority_Unstable(sorted, e) ==
    IF sorted = <<>> THEN <<e>>
    ELSE IF REASON_PRIORITY[Head(sorted).reason] - REASON_PRIORITY[e.reason] < 0
         THEN <<Head(sorted)>> \o InsertByPriority_Unstable(Tail(sorted), e)
         ELSE <<e>> \o sorted

RECURSIVE InsertByPriority(_, _)
\* insert e behind every element that does not rank after it
InsertByPriority(sorted, e) ==
    IF sorted = <<>> THEN <<e>>
    ELSE IF REASON_PRIORITY[Head(sorted).reason] - REASON_PRIORITY[e.reason] <= 0
         THEN <<Head(sorted)>> \o InsertByPriority(Tail(sorted), e)
         ELSE <<e>> \o sorted

RECURSIVE SortByPriority(_)
\* [...renders].sort((a, b) => REASON_PRIORITY[a.reason] - REASON_PRIORITY[b.reason])
\* (Array.prototype.sort is stable)
SortByPriority(renders) ==
    IF renders = <<>> THEN <<>>
    ELSE InsertByPriority(SortByPriority(SubSeq(renders, 1, Len(renders) - 1)),
                          renders[Len(renders)])

\* a variant that keeps every notification
Unshift_Uncapped(state, newToast) ==
    [state EXCEPT !.toasts = <<newToast>> \o @]

\* state.toasts.unshift(newToast), then keep only maxToasts
Unshift(state, newToast) ==
    LET all == <<newToast>> \o state.toasts
    IN  [state EXCEPT !.toasts = IF Len(all) > state.maxToasts
                                 THEN SubSeq(all, 1, state.maxToasts)
                                 ELSE all]

\* a variant that lists the event as a batch of one
addToast_AsBatch(state, payload, now) ==
    Unshift(state, [id |-> <<"toast", payload.id>>,
                    renderInfo |-> payload,
                    batchRenders |-> <<payload>>,
                    isExpanded |-> FALSE,
                    createdAt |-> now])

\* now: the value of Date.now() in the reducer
addToast(state, payload, now) ==
    Unshift(state, [id |-> <<"toast", payload.id>>,
                    renderInfo |-> payload,
                    batchRenders |-> <<>>,
                    isExpanded |-> FALSE,
                    createdAt |-> now])

\* a variant that shows the first arrived event as the primary one
addBatchToast_FirstArrived(state, renders, now) ==
    IF Len(renders) = 0 THEN state
    ELSE Unshift(state, [id |-> <<"toast-batch", now>>,
                         renderInfo |-> renders[1],
                         batchRenders |-> SortByPriority(renders),
                         isExpanded |-> FALSE,
                         createdAt |-> now])

\* a variant that lists only the primary event of a batch
addBatchToast_PrimaryOnly(state, renders, now) ==
    IF Len(renders) = 0 THEN state
    ELSE LET sorted == SortByPriority(renders)
         IN  Unshift(state, [id |-> <<"toast-batch", now>>,
                             renderInfo |-> sorted[1],
                             batchRenders |-> <<sorted[1]>>,
                             isExpanded |-> FALSE,
                             createdAt |-> now])

addBatchToast(state, renders, now) ==
    IF Len(renders) = 0 THEN state
    ELSE LET sorted == SortByPriority(renders)
         IN  Unshift(state, [id |-> <<"toast-batch", now>>,
                             renderInfo |-> sorted[1],
                             batchRenders |-> sorted,
                             isExpanded |-> FALSE,
                             createdAt |-> now])

removeToast(state, id) ==
    [state EXCEPT !.toasts = SelectSeq(@, LAMBDA tst : tst.id # id)]

\* state.toasts.find((t) => t.id === id): the first match, if any
toggleToastExpanded(state, id) ==
    IF \E i \in DOMAIN state.toasts : state.toasts[i].id = id
    THEN LET first == CHOOSE i \in DOMAIN state.toasts :
                         /\ state.toasts[i].id = id
                         /\ \A j \in 1..(i - 1) : state.toasts[j].id # id
         IN  [state EXCEPT !.toasts[first].isExpanded = ~@]
    ELSE state

clearAllToasts(state) == [state EXCEPT !.toasts = <<>>]

(***************************************************************************)
(* ToastContainer and Toast: the auto-dismiss timers.  Every Toast keeps a *)
(* timerRef: "null", "live" (the handle of an armed timer) or "stale" (the *)
(* handle of a timer that was cleared or has fired).  The container        *)
(* re-renders whenever state.toast.toasts changes and hands every Toast a  *)
(* new onDismiss function, so both effects of every Toast run again.       *)
(***************************************************************************)
ToastIds(toasts) == {toasts[i].id : i \in DOMAIN toasts}

\* the queue without the timer that was set last for Toast id
RemoveLast(q, id) ==
    IF \E i \in DOMAIN q : q[i] = id
    THEN LET last == CHOOSE i \in DOMAIN q :
                        q[i] = id /\ \A j \in (i + 1)..Len(q) : q[j] # id
         IN  SubSeq(q, 1, last - 1) \o SubSeq(q, last + 1, Len(q))
    ELSE q

\* timerRef.current = setTimeout(onDismiss, dismissDelay)
SetDismissTimer(view, id) ==
    [timerRef |-> [view.timerRef EXCEPT ![id] = "live"],
     timers |-> Append(view.timers, id)]

\* clearTimeout(timerRef.current)
ClearDismissTimer(view, id) ==
    IF view.timerRef[id] = "live"
    THEN [timerRef |-> [view.timerRef EXCEPT ![id] = "stale"],
          timers |-> RemoveLast(view.timers, id)]
    ELSE view

\* cleanup of the auto-dismiss effect
DismissCleanup(view, id) ==
    IF view.timerRef[id] # "null" THEN ClearDismissTimer(view, id) ELSE view

\* a variant that forgets the handle of the timer without clearing it
PauseEffect_KeepsTimer(view, id, isExpanded) ==
    IF isExpanded /\ view.timerRef[id] # "null"
    THEN [view EXCEPT !.timerRef[id] = "null"]
    ELSE IF ~isExpanded /\ view.timerRef[id] = "null"
         THEN SetDismissTimer(view, id)
         ELSE view

\* the effect "pause auto-dismiss when expanded"
PauseEffect(view, id, isExpanded) ==
    IF isExpanded /\ view.timerRef[id] # "null"
    THEN LET cleared == ClearDismissTimer(view, id)
         IN  [cleared EXCEPT !.timerRef[id] = "null"]
    ELSE IF ~isExpanded /\ view.timerRef[id] = "null"
         THEN SetDismissTimer(view, id)
         ELSE view

\* both effects of one Toast, in the order they are declared
ToastEffects(view, id, isExpanded) ==
    PauseEffect(SetDismissTimer(view, id), id, isExpanded)

\* a Toast mounts: its effects run, and run once more after a cleanup when
\* the runtime double-invokes effects
ToastMount(view, id, isExpanded) ==
    LET fresh == [timerRef |-> [i \in DOMAIN view.timerRef \cup {id} |->
                                  IF i = id THEN "null" ELSE view.timerRef[i]],
                  timers |-> view.timers]
        once == ToastEffects(fresh, id, isExpanded)
    IN  IF strictMode
        THEN ToastEffects(DismissCleanup(once, id), id, isExpanded)
        ELSE once

RECURSIVE CleanupAll(_, _)
\* the cleanups of all mounted Toasts
CleanupAll(view, ids) ==
    IF ids = {} THEN view
    ELSE LET id == CHOOSE i \in ids : TRUE
         IN  CleanupAll(DismissCleanup(view, id), ids \ {id})

RECURSIVE EffectsAll(_, _, _)
\* the effects of the rendered Toasts, in render order
EffectsAll(view, toasts, mountedIds) ==
    IF toasts = <<>> THEN view
    ELSE LET tst == Head(toasts)
             next == IF tst.id \in mountedIds
                     THEN ToastEffects(view, tst.id, tst.isExpanded)
                     ELSE ToastMount(view, tst.id, tst.isExpanded)
         IN  EffectsAll(next, Tail(toasts), mountedIds \cup {tst.id})

\* the container commits a render for the new list of notifications
ContainerCommit(view, toasts) ==
    LET before == DOMAIN view.timerRef
        cleaned == CleanupAll(view, before)
        kept == before \cap ToastIds(toasts)
        pruned == [timerRef |-> [i \in kept |-> cleaned.timerRef[i]],
                   timers |-> cleaned.timers]
    IN  EffectsAll(pruned, toasts, kept)

(***************************************************************************)
(* listener middleware: the batching dispatcher                            *)
(***************************************************************************)
\* getState().toast.suppressToasts; a field the slice does not have reads
\* as undefined, which is falsy
ToastSuppressToasts ==
    IF "suppressToasts" \in DOMAIN toast THEN toast.suppressToasts ELSE FALSE

\* a variant that lets initial events through
ListenerSkips_SuppressionOnly(renderInfo) == ToastSuppressToasts

\* the early return of the listener effect
ListenerSkips(renderInfo) ==
    renderInfo.reason = "initial" \/ ToastSuppressToasts

\* store.dispatch(recordRender(payload)): the reducer, then the listener
DispatchRecordRender(payload) ==
    /\ renderTracker' = recordRender(renderTracker, payload)
    /\ IF ListenerSkips(payload)
       THEN UNCHANGED <<buffer, flushTimer>>
       ELSE /\ buffer' = Append(buffer, payload)
            /\ flushTimer' = TRUE
    /\ emittedWhileSuppressed' =
         IF renderTracker.suppressToasts
         THEN emittedWhileSuppressed \cup {payload.id}
         ELSE emittedWhileSuppressed
    /\ heldUnderSuppression' =
         IF renderTracker.suppressToasts
         THEN heldUnderSuppression \cup {payload.id}
                \cup {buffer[i].id : i \in 1..Len(buffer)}
         ELSE heldUnderSuppression

\* the 300 ms debounce timer fires
FlushTimerFire ==
    /\ flushTimer
    /\ cascadeTodo = <<>>
    /\ Len(toast.toasts) < MaxNotifications
    /\ buffer' = <<>>
    /\ flushTimer' = FALSE
    /\ LET now == buffer[Len(buffer)].id
       IN  IF ToastSuppressToasts THEN toast' = toast
           ELSE IF Len(buffer) = 1 THEN toast' = addToast(toast, buffer[1], now)
           ELSE IF Len(buffer) > 1 THEN toast' = addBatchToast(toast, buffer, now)
           ELSE toast' = toast
    /\ toastView' = IF toast' = toast THEN toastView
                    ELSE ContainerCommit(toastView, toast'.toasts)
    /\ UNCHANGED <<nextId, hook, timers, cascadeTodo, renderTracker, strictMode,
                   mounted, updates, emitted, begins, emittedWhileSuppressed,
                   heldUnderSuppression, cascadeCause, cascadeIds, resetAt, page,
                   expired, ops, call, tally>>

(***************************************************************************)
(* useRenderTracker: the timer callbacks                                   *)
(***************************************************************************)
\* units the page re-renders after the store changed, in tree order
Cascade == SelectSeq(TreeOrder, LAMBDA t : t \in CascadeUnits)

\* the emission timer of unit t fires; limit bounds the events of a run
FireEmissionWithin(t, limit) ==
    /\ timers # <<>>
    /\ Head(timers) = EmitTask(t)
    /\ cascadeTodo = <<>>
    /\ emitted < limit
    /\ LET h == hook[t]
           count == h.meaningfulCountRef + 1
       IN  IF h.pendingInfoRef # Null
           THEN /\ hook' = [hook EXCEPT ![t] =
                              [h EXCEPT !.timerRef = FALSE,
                                        !.meaningfulCountRef = count,
                                        !.pendingInfoRef = Null]]
                /\ DispatchRecordRender([h.pendingInfoRef EXCEPT
                                           !.renderCount = count])
                /\ cascadeTodo' = Cascade
                /\ cascadeCause' = t
                /\ emitted' = emitted + 1
           ELSE /\ hook' = [hook EXCEPT ![t].timerRef = FALSE]
                /\ UNCHANGED <<renderTracker, buffer, flushTimer, cascadeTodo,
                               cascadeCause, emitted, emittedWhileSuppressed,
                               heldUnderSuppression>>
    /\ timers' = Append(Tail(timers), ClearTask(t))
    /\ UNCHANGED <<toast, nextId, strictMode, mounted, updates, begins,
                   cascadeIds, resetAt, page>>
    /\ UNCHANGED <<viewVars, callVars, tally>>

FireEmission(t) == FireEmissionWithin(t, MaxEvents)

\* the same with one more event
FireEmissionMore(t) == FireEmissionWithin(t, MaxEvents + 1)

\* the flag-clear timer of unit t fires
ClearInFlight(t) ==
    /\ timers # <<>>
    /\ Head(timers) = ClearTask(t)
    /\ cascadeTodo = <<>>
    /\ hook' = [hook EXCEPT ![t].dispatchInFlightRef = FALSE]
    /\ timers' = Tail(timers)
    /\ UNCHANGED <<cascadeTodo, renderTracker, toast, buffer, flushTimer,
                   nextId, strictMode, mounted, updates, emitted, begins,
                   emittedWhileSuppressed, heldUnderSuppression, cascadeCause,
                   cascadeIds, resetAt, page>>
    /\ UNCHANGED <<viewVars, callVars, tally>>

(***************************************************************************)
(* Suppression gate: useSuppressToasts                                     *)
(***************************************************************************)
EndTask(n) == [kind |-> "end", t |-> n]

\* a UI-chrome handler wrapped by withSuppressToasts, such as
\* handleViewModeChange: begin, run the action (a state change of the page,
\* which re-renders the units below it), and set the first of three nested
\* zero-delay timers that lead to endSuppressToasts
ChromeActionWithin(limit) ==
    /\ mounted
    /\ cascadeTodo = <<>>
    /\ begins < limit
    /\ begins' = begins + 1
    /\ renderTracker' = beginSuppressToasts(renderTracker)
    /\ timers' = Append(timers, EndTask(1))
    /\ cascadeTodo' = Cascade
    /\ heldUnderSuppression' =
         heldUnderSuppression \cup {buffer[i].id : i \in 1..Len(buffer)}
    /\ cascadeCause' = 0
    /\ UNCHANGED <<hook, toast, buffer, flushTimer, nextId, strictMode,
                   mounted, updates, emitted, emittedWhileSuppressed,
                   cascadeIds, resetAt, page>>
    /\ UNCHANGED <<viewVars, callVars, tally>>

ChromeAction == ChromeActionWithin(MaxSuppress)

\* ResetButton.handleReset: withSuppressToasts around clearRenderHistory and
\* clearAllToasts; the page, which reads renderCounts, re-renders its units
Reset ==
    /\ mounted
    /\ cascadeTodo = <<>>
    /\ begins < MaxSuppress
    /\ begins' = begins + 1
    /\ renderTracker' = clearRenderHistory(beginSuppressToasts(renderTracker))
    /\ toast' = clearAllToasts(toast)
    /\ toastView' = ContainerCommit(toastView, toast'.toasts)
    /\ timers' = Append(timers, EndTask(1))
    /\ cascadeTodo' = Cascade
    /\ cascadeCause' = 0
    /\ resetAt' = [updates |-> updates, begins |-> begins + 1]
    /\ heldUnderSuppression' =
         heldUnderSuppression \cup {buffer[i].id : i \in 1..Len(buffer)}
    /\ UNCHANGED <<hook, buffer, flushTimer, nextId, strictMode, mounted,
                   updates, emitted, emittedWhileSuppressed, cascadeIds,
                   expired, ops, call, tally, page>>

\* one of the nested timers of withSuppressToasts fires
EndHop(n) ==
    /\ timers # <<>>
    /\ Head(timers) = EndTask(n)
    /\ cascadeTodo = <<>>
    /\ IF n < 3
       THEN /\ timers' = Append(Tail(timers), EndTask(n + 1))
            /\ UNCHANGED renderTracker
       ELSE /\ timers' = Tail(timers)
            /\ renderTracker' = endSuppressToasts(renderTracker)
    /\ UNCHANGED <<hook, cascadeTodo, toast, buffer, flushTimer, nextId,
                   strictMode, mounted, updates, emitted, begins,
                   emittedWhileSuppressed, heldUnderSuppression, cascadeCause,
                   cascadeIds, resetAt, page>>
    /\ UNCHANGED <<viewVars, callVars, tally>>

(***************************************************************************)
(* ExamplePage: the page-change effect and the life of the page            *)
(***************************************************************************)
\* the emission timer of a destroyed hook instance: the callback still holds
\* the instance's refs and dispatches its pending event
OrphanTask(t, h) ==
    [kind |-> "orphan", t |-> t,
     info |-> [h.pendingInfoRef EXCEPT !.renderCount = h.meaningfulCountRef + 1]]

\* the timer queue after the units were destroyed: useRenderTracker's effect
\* returns no cleanup, so no timer is cleared; an emission timer stays as the
\* timer of a destroyed instance, whose refs nothing else reads, and its
\* flag-clear timers, which only write such a ref, are left out; the timers
\* of withSuppressToasts stay
RECURSIVE Orphaned(_, _)
Orphaned(q, hk) ==
    IF q = <<>> THEN <<>>
    ELSE LET x == Head(q)
             rest == Orphaned(Tail(q), hk)
         IN  IF x.kind = "emit"
             THEN IF hk[x.t].pendingInfoRef # Null
                  THEN <<OrphanTask(x.t, hk[x.t])>> \o rest
                  ELSE rest
             ELSE IF x.kind = "clear" THEN rest
             ELSE <<x>> \o rest

\* the body of the page-change effect: beginSuppressToasts, then
\* clearRenderHistory (the 100 ms timer is set by the action)
PageEffect(state) == clearRenderHistory(beginSuppressToasts(state))

\* fresh instances of the units are rendered for the first time and their
\* effects run, on the timer queue q
MountUnits(q) ==
    LET h(t) == RenderPhase(InitHook, componentName[t], D00,
                            nextId + (t - 1) * BodyCalls)
    IN  /\ hook' = [t \in Trackers |-> EffectHook(h(t))]
        /\ timers' = EffectTimers(EffectTimers(EffectTimers(q,
                         1, h(1)), 2, h(2)), 3, h(3))
        /\ nextId' = nextId + 3 * BodyCalls

\* the page is entered: the units mount, then the page-change effect runs
\* and sets its 100 ms timer; the store changed, so the page re-renders
PageEnter ==
    /\ ~mounted
    /\ page.runs < MaxMounts
    /\ mounted' = TRUE
    /\ MountUnits(timers)
    /\ renderTracker' = PageEffect(renderTracker)
    /\ page' = [timer |-> TRUE, runs |-> page.runs + 1]
    /\ begins' = begins + 1
    /\ cascadeTodo' = Cascade
    /\ cascadeCause' = 0
    /\ heldUnderSuppression' =
         heldUnderSuppression \cup {buffer[i].id : i \in 1..Len(buffer)}
    /\ UNCHANGED <<toast, buffer, flushTimer, strictMode, updates, emitted,
                   emittedWhileSuppressed, cascadeIds, resetAt>>
    /\ UNCHANGED <<viewVars, callVars, tally>>

\* exampleId changes while the page stays: the units of the old example are
\* destroyed and those of the new one mount; the cleanup of the page-change
\* effect clears its timer and the effect runs again
ExampleChange ==
    /\ mounted
    /\ cascadeTodo = <<>>
    /\ page.runs < MaxMounts
    /\ MountUnits(Orphaned(timers, hook))
    /\ renderTracker' = PageEffect(renderTracker)
    /\ page' = [timer |-> TRUE, runs |-> page.runs + 1]
    /\ begins' = begins + 1
    /\ cascadeTodo' = Cascade
    /\ cascadeCause' = 0
    /\ heldUnderSuppression' =
         heldUnderSuppression \cup {buffer[i].id : i \in 1..Len(buffer)}
    /\ UNCHANGED <<toast, buffer, flushTimer, strictMode, mounted, updates,
                   emitted, emittedWhileSuppressed, cascadeIds, resetAt>>
    /\ UNCHANGED <<viewVars, callVars, tally>>

\* the page is torn down (navigation to another route): the units are
\* destroyed, and the cleanup of the page-change effect clears the 100 ms
\* timer; nothing dispatches endSuppressToasts
PageLeave ==
    /\ mounted
    /\ cascadeTodo = <<>>
    /\ mounted' = FALSE
    /\ hook' = [t \in Trackers |-> InitHook]
    /\ timers' = Orphaned(timers, hook)
    /\ page' = [page EXCEPT !.timer = FALSE]
    /\ UNCHANGED <<cascadeTodo, renderTracker, toast, buffer, flushTimer,
                   nextId, strictMode, updates, emitted, begins,
                   emittedWhileSuppressed, heldUnderSuppression, cascadeCause,
                   cascadeIds, resetAt>>
    /\ UNCHANGED <<viewVars, callVars, tally>>

\* the 100 ms timer of the page-change effect fires
PageTimerFire ==
    /\ page.timer
    /\ cascadeTodo = <<>>
    /\ renderTracker' = endSuppressToasts(renderTracker)
    /\ page' = [page EXCEPT !.timer = FALSE]
    /\ UNCHANGED <<hook, timers, cascadeTodo, toast, buffer, flushTimer,
                   nextId, strictMode, mounted, updates, emitted, begins,
                   emittedWhileSuppressed, heldUnderSuppression, cascadeCause,
                   cascadeIds, resetAt>>
    /\ UNCHANGED <<viewVars, callVars, tally>>

\* the emission timer of a destroyed instance fires: recordRender is
\* dispatched with the instance's pending event; a mounted page re-renders
FireOrphan ==
    /\ timers # <<>>
    /\ Head(timers).kind = "orphan"
    /\ cascadeTodo = <<>>
    /\ emitted < MaxEvents
    /\ DispatchRecordRender(Head(timers).info)
    /\ timers' = Tail(timers)
    /\ emitted' = emitted + 1
    /\ cascadeTodo' = IF mounted THEN Cascade ELSE <<>>
    /\ cascadeCause' = 0
    /\ UNCHANGED <<hook, toast, nextId, strictMode, mounted, updates, begins,
                   cascadeIds, resetAt, page>>
    /\ UNCHANGED <<viewVars, callVars, tally>>

\* a wrapped UI-chrome action on the page, besides the runs of the
\* page-change effect
ChromeActionOnPage == ChromeActionWithin(page.runs + MaxSuppress)

(***************************************************************************)
(* Calls of the pure functions of useRenderTracker.ts on enumerated inputs *)
(***************************************************************************)
\* lists of changed keys handed to determineRenderReason
KeyLists == {<<>>, <<"a">>, <<"b">>, <<"a", "b">>, <<"b", "a">>}

\* property values
Values == {Num(0), Num(1), Undefined, Null, Ref(1), Ref(2)}

\* snapshots: absent, or an object with up to two properties
Snapshots ==
    {Undefined, Obj(<<>>)}
      \cup {Obj(<<[k |-> key, v |-> v]>>) : key \in {"count", "p"}, v \in Values}
      \cup {Obj(<<[k |-> "count", v |-> v], [k |-> "p", v |-> w]>>) :
               v \in {Num(0), Num(1)}, w \in {Num(0), Ref(1), Ref(2)}}
      \cup {Obj(<<[k |-> "p", v |-> w], [k |-> "count", v |-> v]>>) :
               v \in {Num(0), Undefined}, w \in {Num(0), Null}}

\* deps arguments of the hook: none, or props and state each given or not
DepsInputs ==
    {Undefined}
      \cup {Deps(p, st) :
               p \in {Undefined, Obj(<<[k |-> "p", v |-> Num(0)]>>),
                                  Obj(<<[k |-> "p", v |-> Num(1)]>>)},
               st \in {Undefined, Obj(<<[k |-> "count", v |-> Num(0)]>>),
                                   Obj(<<[k |-> "count", v |-> Num(1)]>>)}}

CallClassify ==
    /\ call = NoCall
    /\ \E isInitialRender \in BOOLEAN, forceUpdate \in BOOLEAN,
          changedProps \in KeyLists, changedState \in KeyLists :
          call' = [fn |-> "determineRenderReason",
                   isInitialRender |-> isInitialRender,
                   changedProps |-> changedProps,
                   changedState |-> changedState,
                   forceUpdate |-> forceUpdate,
                   result |-> determineRenderReason(isInitialRender, changedProps,
                                                    changedState, forceUpdate)]
    /\ UNCHANGED <<hook, timers, cascadeTodo, renderTracker, toast, buffer,
                   flushTimer, nextId, strictMode, mounted, updates, emitted,
                   begins, emittedWhileSuppressed, heldUnderSuppression,
                   cascadeCause, cascadeIds, resetAt, page, viewVars, tally>>

CallDiff ==
    /\ call = NoCall
    /\ \E prev \in Snapshots, current \in Snapshots :
          call' = [fn |-> "diff",
                   prev |-> prev,
                   current |-> current,
                   keys |-> getChangedKeys(prev, current),
                   changes |-> getChangedValues(prev, current)]
    /\ UNCHANGED <<hook, timers, cascadeTodo, renderTracker, toast, buffer,
                   flushTimer, nextId, strictMode, mounted, updates, emitted,
                   begins, emittedWhileSuppressed, heldUnderSuppression,
                   cascadeCause, cascadeIds, resetAt, page, viewVars, tally>>

\* a unit is invoked for the first time with prevDeps, its effect runs, and
\* it is invoked again with deps
CallBody ==
    /\ call = NoCall
    /\ \E prevDeps \in DepsInputs, deps \in DepsInputs :
          LET first == EffectHook(RenderBody(InitHook, "A", prevDeps, 1))
              second == RenderBody(first, "A", deps, 2)
          IN  call' = [fn |-> "useRenderTracker",
                       prevDeps |-> prevDeps,
                       deps |-> deps,
                       result |-> second.renderInfo]
    /\ UNCHANGED <<hook, timers, cascadeTodo, renderTracker, toast, buffer,
                   flushTimer, nextId, strictMode, mounted, updates, emitted,
                   begins, emittedWhileSuppressed, heldUnderSuppression,
                   cascadeCause, cascadeIds, resetAt, page, viewVars, tally>>

(***************************************************************************)
(* The notification store and its view, driven directly                    *)
(***************************************************************************)
\* the event with sequence number n of a unit
Payload(n) ==
    [id |-> n,
     componentName |-> "A",
     renderCount |-> n,
     reason |-> IF n % 2 = 0 THEN "props-change" ELSE "state-change",
     changedProps |-> <<>>,
     changedState |-> <<>>,
     propChanges |-> <<>>,
     stateChanges |-> <<>>]

\* dispatch(addToast(renderInfo)); limit bounds the notifications of a run
AppendWithin(limit) ==
    /\ nextId <= limit
    /\ toast' = addToast(toast, Payload(nextId), nextId)
    /\ toastView' = ContainerCommit(toastView, toast'.toasts)
    /\ nextId' = nextId + 1
    /\ UNCHANGED <<hook, timers, cascadeTodo, renderTracker, buffer, flushTimer,
                   strictMode, mounted, updates, emitted, begins,
                   emittedWhileSuppressed, heldUnderSuppression, cascadeCause,
                   cascadeIds, resetAt, page, expired, ops, call, tally>>

AppendSingle == AppendWithin(MaxAppends)

\* the same with few notifications (see SpecExpand)
AppendShown == AppendWithin(MaxShown)

\* dispatch(addBatchToast(renders)) with two events
AppendBatch ==
    /\ nextId + 1 <= MaxAppends
    /\ ops < MaxToastOps
    /\ toast' = addBatchToast(toast, <<Payload(nextId), Payload(nextId + 1)>>,
                              nextId + 1)
    /\ toastView' = ContainerCommit(toastView, toast'.toasts)
    /\ nextId' = nextId + 2
    /\ ops' = ops + 1
    /\ UNCHANGED <<hook, timers, cascadeTodo, renderTracker, buffer, flushTimer,
                   strictMode, mounted, updates, emitted, begins,
                   emittedWhileSuppressed, heldUnderSuppression, cascadeCause,
                   cascadeIds, resetAt, page, expired, call, tally>>

\* ToastContainer.handleToggleExpand
ToggleExpand(id) ==
    /\ ops < MaxToggles
    /\ toast' = toggleToastExpanded(toast, id)
    /\ toastView' = ContainerCommit(toastView, toast'.toasts)
    /\ ops' = ops + 1
    /\ UNCHANGED <<hook, timers, cascadeTodo, renderTracker, buffer, flushTimer,
                   nextId, strictMode, mounted, updates, emitted, begins,
                   emittedWhileSuppressed, heldUnderSuppression, cascadeCause,
                   cascadeIds, resetAt, page, expired, call, tally>>

\* ToastContainer.handleDismiss from the close button
Dismiss(id) ==
    /\ ops < MaxToastOps
    /\ toast' = removeToast(toast, id)
    /\ toastView' = ContainerCommit(toastView, toast'.toasts)
    /\ ops' = ops + 1
    /\ UNCHANGED <<hook, timers, cascadeTodo, renderTracker, buffer, flushTimer,
                   nextId, strictMode, mounted, updates, emitted, begins,
                   emittedWhileSuppressed, heldUnderSuppression, cascadeCause,
                   cascadeIds, resetAt, page, expired, call, tally>>

\* dispatch(clearAllToasts())
ClearAll ==
    /\ ops < MaxToastOps
    /\ toast.toasts # <<>>
    /\ toast' = clearAllToasts(toast)
    /\ toastView' = ContainerCommit(toastView, toast'.toasts)
    /\ ops' = ops + 1
    /\ UNCHANGED <<hook, timers, cascadeTodo, renderTracker, buffer, flushTimer,
                   nextId, strictMode, mounted, updates, emitted, begins,
                   emittedWhileSuppressed, heldUnderSuppression, cascadeCause,
                   cascadeIds, resetAt, page, expired, call, tally>>

\* the auto-dismiss timer that was armed first fires: onDismiss removes the
\* notification and the container renders the new list; limit bounds the
\* timers that fire in a run
DismissTimerFireWithin(limit) ==
    /\ toastView.timers # <<>>
    /\ Cardinality(expired) < limit
    /\ LET id == Head(toastView.timers)
           fired == [timerRef |-> [toastView.timerRef EXCEPT ![id] = "stale"],
                     timers |-> Tail(toastView.timers)]
       IN  /\ toast' = removeToast(toast, id)
           /\ toastView' = ContainerCommit(fired, toast'.toasts)
           /\ expired' = expired \cup {id}
    /\ UNCHANGED <<hook, timers, cascadeTodo, renderTracker, buffer, flushTimer,
                   nextId, strictMode, mounted, updates, emitted, begins,
                   emittedWhileSuppressed, heldUnderSuppression, cascadeCause,
                   cascadeIds, resetAt, page, ops, call, tally>>

DismissTimerFire == DismissTimerFireWithin(MaxExpiries)

\* the same for every notification shown (see SpecExpand)
DismissTimerFireShown == DismissTimerFireWithin(MaxShown)

\* the notification store filled beyond its depth
NextToasts ==
    \/ AppendSingle
    \/ AppendBatch
    \/ \E id \in ToastIds(toast.toasts) : Dismiss(id)
    \/ ClearAll
    \/ DismissTimerFire

SpecToasts == Init /\ [][NextToasts]_vars

\* few notifications, expanded and collapsed by the user
NextExpand ==
    \/ AppendShown
    \/ \E id \in ToastIds(toast.toasts) : ToggleExpand(id)
    \/ DismissTimerFireShown

SpecExpand == Init /\ [][NextExpand]_vars

\* a mounted unit re-renders, by a forced update of its owner or not, and is
\* invoked again: useRenderTracker(componentName, deps) takes the name and
\* the deps only, and the body calls determineRenderReason with three
\* arguments, so whether the re-render was forced does not reach it
CallForced ==
    /\ call = NoCall
    /\ \E forced \in BOOLEAN, prevDeps \in DepsInputs, deps \in DepsInputs :
          LET first == EffectHook(RenderBody(InitHook, "A", prevDeps, 1))
              second == RenderBody(first, "A", deps, 2)
          IN  call' = [fn |-> "forcedRender",
                       forced |-> forced,
                       prevDeps |-> prevDeps,
                       deps |-> deps,
                       result |-> second.renderInfo]
    /\ UNCHANGED <<hook, timers, cascadeTodo, renderTracker, toast, buffer,
                   flushTimer, nextId, strictMode, mounted, updates, emitted,
                   begins, emittedWhileSuppressed, heldUnderSuppression,
                   cascadeCause, cascadeIds, resetAt, page, viewVars, tally>>

NextPure == CallClassify \/ CallDiff \/ CallBody \/ CallForced

SpecPure == Init /\ [][NextPure]_vars

Next ==
    \/ MountAll
    \/ \E t \in Trackers : \E deps \in UpdateDeps(t) : Update(t, deps)
    \/ CascadeRender
    \/ \E t \in Trackers : FireEmission(t)
    \/ \E t \in Trackers : ClearInFlight(t)
    \/ FlushTimerFire
    \/ ChromeAction
    \/ \E n \in 1..3 : EndHop(n)

Spec == Init /\ [][Next]_vars

\* the same with the reset button
NextReset ==
    \/ MountAll
    \/ \E t \in Trackers : \E deps \in UpdateDeps(t) : Update(t, deps)
    \/ CascadeRender
    \/ \E t \in Trackers : FireEmission(t)
    \/ \E t \in Trackers : ClearInFlight(t)
    \/ FlushTimerFire
    \/ ChromeAction
    \/ Reset
    \/ \E n \in 1..3 : EndHop(n)

SpecReset == Init /\ [][NextReset]_vars

\* the life of the page: it is entered, its example changes, it is left;
\* no user-caused re-render of a unit
NextPage ==
    \/ PageEnter
    \/ ExampleChange
    \/ PageLeave
    \/ PageTimerFire
    \/ FireOrphan
    \/ CascadeRender
    \/ \E t \in Trackers : FireEmission(t)
    \/ \E t \in Trackers : ClearInFlight(t)
    \/ FlushTimerFire
    \/ ChromeActionOnPage
    \/ \E n \in 1..3 : EndHop(n)

SpecPage == Init /\ [][NextPage]_vars

\* the suppression gate on a page that stays: the page-change effect and
\* the wrapped UI-chrome actions
NextGate ==
    \/ PageEnter
    \/ PageTimerFire
    \/ CascadeRender
    \/ \E t \in Trackers : FireEmission(t)
    \/ \E t \in Trackers : ClearInFlight(t)
    \/ ChromeActionOnPage
    \/ \E n \in 1..3 : EndHop(n)

SpecGate == Init /\ [][NextGate]_vars

\* the units and the store alone, with one more user-caused re-render: no
\* notification is flushed and no UI-chrome action runs
NextUnits ==
    \/ MountAll
    \/ \E t \in Trackers : \E deps \in UpdateDeps(t) : UpdateMore(t, deps)
    \/ CascadeRender
    \/ \E t \in Trackers : FireEmissionMore(t)
    \/ \E t \in Trackers : ClearInFlight(t)

SpecUnits == Init /\ [][NextUnits]_vars

TypeOK ==
    /\ nextId \in Nat
    /\ updates \in 0..(MaxUpdates + 1)
    /\ Len(toast.toasts) <= toast.maxToasts

(***************************************************************************)
(* Vocabulary of the properties                                            *)
(***************************************************************************)
\* unit t ran its function body in this step
Invoked(t) == hook'[t].renderCountRef # hook[t].renderCountRef

Range(seq) == {seq[i] : i \in DOMAIN seq}

\* the events shown by one notification
ToastEvents(tst) == {tst.renderInfo} \cup Range(tst.batchRenders)

\* the events shown by any notification of the store
SurfacedEvents == UNION {ToastEvents(toast.toasts[i]) : i \in DOMAIN toast.toasts}

\* the events recorded in the store
RecordedEvents ==
    UNION {Range(renderTracker.renderHistory[n]) : n \in Names}

\* the debounce timer fires in this step and creates a notification for a
\* buffer of two or more events
BatchFlushed ==
    /\ flushTimer /\ ~flushTimer'
    /\ Len(buffer) >= 2
    /\ Len(toast'.toasts) = Len(toast.toasts) + 1

\* the order of ReasonKind: 1 is the highest priority
ReasonRank(reason) ==
    CASE reason = "initial" -> 1
      [] reason = "force-update" -> 2
      [] reason = "state-change" -> 3
      [] reason = "props-change" -> 4
      [] reason = "parent-rerender" -> 5

\* what the classifier returns for the deps of an invocation, seen from the
\* refs before the invocation
FreshReason(h, deps) ==
    determineRenderReason(h.renderCountRef = 0,
                          getChangedKeys(OptProps(h.prevDepsRef), OptProps(deps)),
                          getChangedKeys(OptState(h.prevDepsRef), OptState(deps)),
                          FALSE)

\* C1: while an emission of a unit is queued or has fired less than one tick
\* ago, a committed invocation of that unit whose reason is parent-rerender
\* changes neither the pending event, nor the timers, nor meaningfulCountRef.
C1_CascadeDroppedWhileInFlight ==
    [][\A t \in Trackers :
         (/\ Invoked(t)
          /\ (hook[t].timerRef \/ ClearQueued(t))
          /\ hook'[t].renderInfo.reason = "parent-rerender")
         => /\ hook'[t].pendingInfoRef = hook[t].pendingInfoRef
            /\ timers' = timers
            /\ hook'[t].meaningfulCountRef = hook[t].meaningfulCountRef]_vars

\* C2: an update whose body is invoked twice and whose first invocation is
\* classified other than parent-rerender leaves exactly one emission timer
\* for the unit, and the pending event carries the reason and the changed
\* keys of that first invocation; committedReasonRef is unset after an
\* invocation exactly when that invocation scheduled an emission, and no
\* other step changes it.
C2_DoubleInvocationOneEmission ==
    [][\A t \in Trackers :
         IF Invoked(t)
         THEN LET deps == hook'[t].prevDepsRef
                  first == FreshReason(hook[t], deps)
                  scheduled == /\ hook'[t].pendingInfoRef # Null
                               /\ hook'[t].pendingInfoRef.id >= nextId
              IN  /\ (strictMode /\ first # "parent-rerender") =>
                       /\ Cardinality({i \in DOMAIN timers' :
                                         timers'[i] = EmitTask(t)}) = 1
                       /\ scheduled
                       /\ hook'[t].pendingInfoRef.reason = first
                       /\ hook'[t].pendingInfoRef.changedProps =
                            getChangedKeys(OptProps(hook[t].prevDepsRef),
                                           OptProps(deps))
                       /\ hook'[t].pendingInfoRef.changedState =
                            getChangedKeys(OptState(hook[t].prevDepsRef),
                                           OptState(deps))
                  /\ (hook'[t].committedReasonRef = NullReason) <=> scheduled
         ELSE hook'[t].committedReasonRef = hook[t].committedReasonRef]_vars

\* C2 witness: under double invocation, an update with a detected change has
\* its event pending and the committed reason is unset again
C2_Witness ==
    \E t \in Trackers :
        /\ strictMode
        /\ hook[t].renderCountRef >= 4
        /\ hook[t].pendingInfoRef # Null
        /\ hook[t].pendingInfoRef.reason \in {"state-change", "props-change"}
        /\ hook[t].committedReasonRef = NullReason

\* the number of events the mount and one update may cause when every unit
\* surfaces the update or its ripple once
FeedbackLimit == 2 * Cardinality(Trackers)

\* C3: after the mount and at most one user-caused re-render, with no other
\* input, the units hand only a bounded number of events to the store: one
\* per unit for the mount and at most one per unit for the update and its
\* ripple.
C3_NoInfiniteFeedback ==
    (updates <= 1 /\ begins = 0) => emitted <= FeedbackLimit

\* C4: meaningfulCountRef of a unit never decreases; it changes only by +1,
\* in a step that hands exactly one event to the store, and that event
\* carries the new value; a step that invokes the unit leaves it unchanged.
C4_CounterStepsByOne ==
    [][/\ \A t \in Trackers :
            LET before == hook[t].meaningfulCountRef
                after == hook'[t].meaningfulCountRef
                old == renderTracker.renderHistory[componentName[t]]
                new == renderTracker'.renderHistory[componentName[t]]
            IN  /\ after >= before
                /\ after # before =>
                     /\ after = before + 1
                     /\ emitted' = emitted + 1
                     /\ Len(new) = Len(old) + 1
                     /\ new[Len(new)].renderCount = after
                /\ Invoked(t) => after = before
       /\ emitted' # emitted =>
            Cardinality({t \in Trackers : hook'[t].meaningfulCountRef
                                            # hook[t].meaningfulCountRef}) = 1]_vars

\* C4 witness: a unit has surfaced two events and was invoked more often
\* than that (some invocations were dropped or superseded)
C4_Witness ==
    \E t \in Trackers :
        /\ ~strictMode
        /\ hook[t].meaningfulCountRef = 2
        /\ hook[t].renderCountRef >= 4

\* C5: renderCounts[unitName] never decreases when an event is recorded.
C5_SequenceNumberMonotonic ==
    [][\A n \in Names :
         renderTracker'.renderCounts[n] >= renderTracker.renderCounts[n]]_vars

\* no event with reason initial is in the dispatcher buffer or in a notification
NoInitialSurfaced ==
    \A e \in Range(buffer) \cup SurfacedEvents : e.reason # "initial"

\* C6: the first event a unit hands to the store has reason initial, and no
\* event with reason initial is buffered or shown in a notification.
C6_FirstEventInitial ==
    /\ \A e \in RecordedEvents : e.renderCount = 1 => e.reason = "initial"
    /\ NoInitialSurfaced

\* C6 as amended: the first event of a unit has reason initial unless an
\* invocation with a detected change superseded the pending initial event
\* (then it is that state-change or props-change event, never a
\* parent-rerender one); initial events are never buffered or shown.
C6_FirstEventInitialUnlessSuperseded ==
    /\ \A e \in RecordedEvents :
          e.renderCount = 1 =>
             \/ e.reason = "initial"
             \/ /\ e.reason \in {"state-change", "props-change"}
                /\ Len(e.changedProps) + Len(e.changedState) > 0
    /\ \A t \in Trackers :
          (hook[t].meaningfulCountRef = 0 /\ hook[t].pendingInfoRef # Null) =>
             hook[t].pendingInfoRef.reason
                \in {"initial", "state-change", "props-change"}
    /\ NoInitialSurfaced

\* C6 witness: initial events were recorded, a first event that superseded
\* the initial one was recorded too, and a notification exists
C6_Witness ==
    /\ \E e \in RecordedEvents : e.reason = "initial"
    /\ \E e \in RecordedEvents : e.renderCount = 1 /\ e.reason # "initial"
    /\ toast.toasts # <<>>

\* C7: when two or more events are flushed, the primary event of the batch
\* notification is one of the buffered events and no buffered event has a
\* higher priority.
C7_PrimaryIsHighestPriority ==
    [][BatchFlushed =>
         LET primary == toast'.toasts[1].renderInfo
         IN  /\ primary \in Range(buffer)
             /\ \A e \in Range(buffer) :
                   ReasonRank(primary.reason) <= ReasonRank(e.reason)]_vars

\* C7 witness: a batch notification whose primary event is a detected
\* change and was produced after a parent-rerender event of the same batch
C7_Witness ==
    \E i \in DOMAIN toast.toasts :
        LET tst == toast.toasts[i]
        IN  /\ Len(tst.batchRenders) >= 2
            /\ tst.renderInfo.reason \in {"state-change", "props-change"}
            /\ \E e \in Range(tst.batchRenders) :
                  e.reason = "parent-rerender" /\ e.id < tst.renderInfo.id

\* C8: the batch notification holds the flushed events in arrival order.
C8_BatchInArrivalOrder ==
    [][BatchFlushed => toast'.toasts[1].batchRenders = buffer]_vars

\* position of event e in a sequence of events with distinct ids
PositionIn(seq, e) == CHOOSE i \in DOMAIN seq : seq[i] = e

\* C8 as amended: the batch notification holds exactly the flushed events,
\* ordered by priority (highest first), events of equal priority keeping
\* their arrival order.
C8_BatchSortedByPriorityStable ==
    [][BatchFlushed =>
         LET batch == toast'.toasts[1].batchRenders
         IN  /\ Len(batch) = Len(buffer)
             /\ Range(batch) = Range(buffer)
             /\ \A i, j \in DOMAIN batch :
                   i < j =>
                     \/ ReasonRank(batch[i].reason) < ReasonRank(batch[j].reason)
                     \/ /\ ReasonRank(batch[i].reason) = ReasonRank(batch[j].reason)
                        /\ PositionIn(buffer, batch[i]) < PositionIn(buffer, batch[j])]_vars

\* C8 witness: a batch notification that lists a later event before an
\* earlier one and holds two events of equal priority
C8_Witness ==
    \E n \in DOMAIN toast.toasts :
        LET batch == toast.toasts[n].batchRenders
        IN  /\ \E i, j \in DOMAIN batch : i < j /\ batch[i].id > batch[j].id
            /\ \E i, j \in DOMAIN batch :
                  i < j /\ batch[i].reason = batch[j].reason

\* C9: no notification shows an event that was recorded while the
\* suppression gate (renderTracker.suppressToasts) was active.
C9_SuppressedEventsNeverSurface ==
    \A e \in SurfacedEvents : e.id \notin emittedWhileSuppressed

\* C10: no notification shows an event that was received, or was waiting in
\* the buffer, at a moment the suppression gate was active.
C10_BufferDroppedOnSuppression ==
    \A e \in SurfacedEvents : e.id \notin heldUnderSuppression

\* C11: an event scheduled by a cascade invocation of another unit, made
\* because an emission was committed to the store while the emitting unit's
\* dispatchInFlightRef was set, is never shown by a notification.
C11_CascadeProducesNoNotification ==
    \A e \in SurfacedEvents : e.id \notin cascadeIds

\* the debounce timer fires in this step
FlushStep == flushTimer /\ ~flushTimer'

\* C14: the debounce timer is armed exactly while the buffer is non-empty;
\* an accepted event arms it again and creates no notification; when it
\* fires with the gate inactive, exactly one notification is put at the head
\* of the list: the buffered event without batchRenders when one event was
\* buffered, a batch with all buffered events when there were more; the
\* buffer is empty afterwards, and no other step adds a notification.
C14_OneNotificationPerWindow ==
    [][/\ flushTimer' <=> (buffer' # <<>>)
       /\ Len(buffer') > Len(buffer) =>
             /\ Len(buffer') = Len(buffer) + 1
             /\ flushTimer'
             /\ toast' = toast
       /\ (FlushStep /\ ~renderTracker.suppressToasts) =>
             /\ buffer' = <<>>
             /\ Len(toast'.toasts) = Len(toast.toasts) + 1
             /\ Tail(toast'.toasts) = toast.toasts
             /\ LET new == toast'.toasts[1]
                IN  IF Len(buffer) = 1
                    THEN new.renderInfo = buffer[1] /\ new.batchRenders = <<>>
                    ELSE /\ Len(new.batchRenders) = Len(buffer)
                         /\ Range(new.batchRenders) = Range(buffer)
       /\ Len(toast'.toasts) > Len(toast.toasts) => FlushStep]_vars

\* C14 witness: a notification for one event and a batch notification
\* exist, and the buffer is empty
C14_Witness ==
    /\ buffer = <<>>
    /\ ~flushTimer
    /\ \E i \in DOMAIN toast.toasts : toast.toasts[i].batchRenders = <<>>
    /\ \E i \in DOMAIN toast.toasts : Len(toast.toasts[i].batchRenders) >= 2

\* C15: after the reset, as long as no unit was updated and no other
\* wrapped action ran, the notification store is empty.
C15_ResetLeavesNoNotification ==
    (resetAt.updates = updates /\ resetAt.begins = begins) =>
        toast.toasts = <<>>

\* C16: a unit that received k updates, each while it was idle, and is idle
\* again has a number in the store that is at least k above the number the
\* store held before the first of these updates.
C16_UpdatesAccumulate ==
    \A t \in Trackers :
        (tally[t].base >= 0 /\ Idle(t)) =>
            renderTracker.renderCounts[componentName[t]]
                >= tally[t].base + tally[t].k

\* C20: a step that records an event while the gate is active appends the
\* event to the history of its name, sets the number of the name to the
\* event's renderCount, adds 1 to the count of the event's reason, leaves
\* the other names alone, and changes neither the notification store nor
\* the dispatcher (buffer and timer).
C20_SuppressedEventRecordedOnly ==
    [][(emitted' = emitted + 1 /\ renderTracker.suppressToasts) =>
         \E t \in Trackers :
            LET name == componentName[t]
                old == renderTracker
                new == renderTracker'
                e == new.renderHistory[name][Len(new.renderHistory[name])]
            IN  /\ hook'[t].meaningfulCountRef = hook[t].meaningfulCountRef + 1
                /\ e.renderCount = hook'[t].meaningfulCountRef
                /\ new.renderHistory[name] = Append(old.renderHistory[name], e)
                /\ new.renderCounts[name] = e.renderCount
                /\ new.renderCountsByReason[name] =
                      [old.renderCountsByReason[name] EXCEPT ![e.reason] = @ + 1]
                /\ \A n \in Names \ {name} :
                      /\ new.renderHistory[n] = old.renderHistory[n]
                      /\ new.renderCounts[n] = old.renderCounts[n]
                      /\ new.renderCountsByReason[n] = old.renderCountsByReason[n]
                /\ new.suppressToasts = old.suppressToasts
                /\ toast' = toast
                /\ buffer' = buffer
                /\ flushTimer' = flushTimer]_vars

\* C12: determineRenderReason returns the first match of: initial when
\* isInitialRender; force-update when forceUpdate; state-change when
\* changedState is non-empty; props-change when changedProps is non-empty;
\* parent-rerender otherwise; the result is one of the reasons.
C12_ClassifyPrecedence ==
    call.fn = "determineRenderReason" =>
        LET r == call.result
        IN  /\ r \in Reasons
            /\ call.isInitialRender => r = "initial"
            /\ (~call.isInitialRender /\ call.forceUpdate) => r = "force-update"
            /\ (~call.isInitialRender /\ ~call.forceUpdate
                  /\ call.changedState # <<>>) => r = "state-change"
            /\ (~call.isInitialRender /\ ~call.forceUpdate
                  /\ call.changedState = <<>> /\ call.changedProps # <<>>)
                 => r = "props-change"
            /\ (~call.isInitialRender /\ ~call.forceUpdate
                  /\ call.changedState = <<>> /\ call.changedProps = <<>>)
                 => r = "parent-rerender"

\* C12 witness: a call with both lists non-empty and neither flag set
C12_Witness ==
    /\ call.fn = "determineRenderReason"
    /\ ~call.isInitialRender /\ ~call.forceUpdate
    /\ call.changedState # <<>> /\ call.changedProps # <<>>
    /\ call.result = "state-change"

\* the keys of a snapshot, and the value a snapshot holds for a key
KeySet(o) == {o.entries[i].k : i \in DOMAIN o.entries}
ValueAt(o, key) ==
    IF key \in KeySet(o)
    THEN (CHOOSE e \in Range(o.entries) : e.k = key).v
    ELSE Undefined

\* C17: the diff of two snapshots is empty when either side is absent;
\* otherwise the changed keys are exactly the keys of either side whose two
\* values are not the same value, each listed once, and the change list has
\* one entry per changed key, in the same order, with the displays of the
\* two values; {count: 0} against {count: 1} gives the key count with the
\* displays "0" and "1".
C17_DiffIsExactChangedKeys ==
    call.fn = "diff" =>
        LET keys == call.keys
            changes == call.changes
        IN  IF call.prev = Undefined \/ call.current = Undefined
            THEN keys = <<>> /\ changes = <<>>
            ELSE /\ Range(keys) =
                      {key \in KeySet(call.prev) \cup KeySet(call.current) :
                         ValueAt(call.prev, key) # ValueAt(call.current, key)}
                 /\ Cardinality(Range(keys)) = Len(keys)
                 /\ Len(changes) = Len(keys)
                 /\ \A i \in DOMAIN keys : changes[i].key = keys[i]
                 /\ (/\ call.prev = Obj(<<[k |-> "count", v |-> Num(0)]>>)
                     /\ call.current = Obj(<<[k |-> "count", v |-> Num(1)]>>))
                    => /\ keys = <<"count">>
                       /\ changes[1].previousValue = "0"
                       /\ changes[1].currentValue = "1"

\* C17 witness: two snapshots that differ in one of two keys, the differing
\* values being two objects of equal content
C17_Witness ==
    /\ call.fn = "diff"
    /\ call.prev # Undefined /\ call.current # Undefined
    /\ ValueAt(call.prev, "p") = Ref(1)
    /\ ValueAt(call.current, "p") = Ref(2)
    /\ call.keys = <<"p">>
    /\ Cardinality(KeySet(call.current)) = 2

\* a side of the deps is absent when the deps or that side are undefined
SideOf(d, side) ==
    IF d = Undefined THEN Undefined
    ELSE IF side = "props" THEN d.props ELSE d.state

NoDetectedChange(prevDeps, deps) ==
    \A side \in {"props", "state"} :
        LET a == SideOf(prevDeps, side)
            b == SideOf(deps, side)
        IN  \/ a = Undefined
            \/ b = Undefined
            \/ \A key \in KeySet(a) \cup KeySet(b) : ValueAt(a, key) = ValueAt(b, key)

\* C18: a second invocation of a unit whose props and state show no
\* detected change against the first one, a side that is absent before or
\* now included, gets the reason parent-rerender and empty lists of changes.
C18_NoChangeIsParentRerender ==
    (call.fn = "useRenderTracker" /\ NoDetectedChange(call.prevDeps, call.deps)) =>
        /\ call.result.reason = "parent-rerender"
        /\ call.result.changedProps = <<>>
        /\ call.result.changedState = <<>>
        /\ call.result.propChanges = <<>>
        /\ call.result.stateChanges = <<>>

\* C18 witness: the unit had props and state tracked at first and only
\* props at the second invocation, with equal props
C18_Witness ==
    /\ call.fn = "useRenderTracker"
    /\ call.prevDeps # Undefined /\ call.deps # Undefined
    /\ call.prevDeps.state # Undefined /\ call.deps.state = Undefined
    /\ call.prevDeps.props # Undefined /\ call.prevDeps.props = call.deps.props
    /\ call.result.reason = "parent-rerender"

ArmedTimers(view, id) ==
    Cardinality({i \in DOMAIN view.timers : view.timers[i] = id})

\* C19: an expanded notification has no armed auto-dismiss timer and a
\* collapsed one has exactly one, whatever happened to the store since;
\* auto-dismiss removes only a notification that is collapsed.
C19_ExpandedHasNoTimer ==
    [][/\ \A i \in DOMAIN toast'.toasts :
            LET tst == toast'.toasts[i]
            IN  IF tst.isExpanded
                THEN /\ ArmedTimers(toastView', tst.id) = 0
                     /\ toastView'.timerRef[tst.id] = "null"
                ELSE /\ ArmedTimers(toastView', tst.id) = 1
                     /\ toastView'.timerRef[tst.id] = "live"
       /\ \A id \in expired' \ expired :
            \E i \in DOMAIN toast.toasts :
                toast.toasts[i].id = id /\ ~toast.toasts[i].isExpanded]_vars

\* C19 witness: the only notification was expanded, collapsed again and then
\* removed by auto-dismiss
C19_Witness ==
    /\ ops = 2
    /\ nextId = 2
    /\ expired = {<<"toast", 1>>}

\* the emission timer of unit t fired in this step and handed an event to
\* the store
Emitted(t) == hook'[t].meaningfulCountRef # hook[t].meaningfulCountRef

\* the number of emission timers of unit t in a queue
EmitTimers(q, t) == Cardinality({i \in DOMAIN q : q[i] = EmitTask(t)})

\* the event the store recorded last for a name
LastRecorded(state, name) ==
    state.renderHistory[name][Len(state.renderHistory[name])]

\* C21: a unit never has more than one emission timer; an invocation that
\* the cascade filter does not drop makes its own event the pending one and
\* leaves one timer, a dropped one leaves the pending event as it is; when
\* the timer fires, the store receives the pending event and the unit's
\* meaningfulCountRef grows by one, whatever the number of invocations.
C21_InvocationsCoalesce ==
    [][\A t \in Trackers :
         /\ EmitTimers(timers', t) <= 1
         /\ Invoked(t) =>
              IF hook[t].dispatchInFlightRef
                   /\ hook'[t].renderInfo.reason = "parent-rerender"
              THEN hook'[t].pendingInfoRef = hook[t].pendingInfoRef
              ELSE /\ hook'[t].pendingInfoRef = hook'[t].renderInfo
                   /\ EmitTimers(timers', t) = 1
         /\ Emitted(t) =>
              /\ hook[t].pendingInfoRef # Null
              /\ hook'[t].meaningfulCountRef = hook[t].meaningfulCountRef + 1
              /\ hook'[t].pendingInfoRef = Null
              /\ emitted' = emitted + 1
              /\ LastRecorded(renderTracker', componentName[t]) =
                   [hook[t].pendingInfoRef EXCEPT
                      !.renderCount = hook[t].meaningfulCountRef + 1]]_vars

\* C21 witness: unit 2 was invoked at its mount and again, with new props,
\* before its timer fired; one event was emitted, the one of the later
\* invocation, with the sequence number 1
C21_Witness ==
    /\ updates = 1
    /\ hook[2].meaningfulCountRef = 1
    /\ hook[2].renderCountRef = 2 * BodyCalls
    /\ \E i \in DOMAIN renderTracker.renderHistory["A"] :
          LET e == renderTracker.renderHistory["A"][i]
          IN  /\ e.id = hook[2].renderInfo.id
              /\ e.reason = "props-change"
              /\ e.renderCount = 1

\* unit t has not been invoked since the invocation whose event the store
\* recorded last
NoFurtherInvocation(t) ==
    /\ renderTracker.renderHistory[componentName[t]] # <<>>
    /\ LastRecorded(renderTracker, componentName[t]).id = hook[t].renderInfo.id

\* C22: when the emission timer of a unit fires, the unit's
\* dispatchInFlightRef is set after the step and the timer that clears it is
\* the last one queued; only that timer clears the flag; a unit that has no
\* timer queued and was not invoked since its last emitted event has no
\* pending event, no armed timer, a clear flag and no committed reason.
C22_FlagHeldThenIdle ==
    [][\A t \in Trackers :
         /\ Emitted(t) =>
              /\ hook'[t].dispatchInFlightRef
              /\ timers' # <<>>
              /\ timers'[Len(timers')] = ClearTask(t)
         /\ (hook[t].dispatchInFlightRef /\ ~hook'[t].dispatchInFlightRef) =>
              /\ timers # <<>>
              /\ Head(timers) = ClearTask(t)
         /\ (timers # <<>> /\ Head(timers) = ClearTask(t) /\ timers' = Tail(timers)) =>
              ~hook'[t].dispatchInFlightRef
         /\ (~EmitQueued(t) /\ ~ClearQueued(t) /\ NoFurtherInvocation(t)) =>
              /\ hook[t].pendingInfoRef = Null
              /\ ~hook[t].timerRef
              /\ ~hook[t].dispatchInFlightRef
              /\ hook[t].committedReasonRef = NullReason]_vars

\* C23: when the debounce timer fires while the suppression gate is active
\* and every buffered event was received with the gate inactive, no
\* notification is created and the buffer and the timer are empty afterwards.
C23_FlushRechecksSuppression ==
    [][(/\ FlushStep
        /\ renderTracker.suppressToasts
        /\ \A i \in DOMAIN buffer : buffer[i].id \notin emittedWhileSuppressed)
       => /\ toast' = toast
          /\ buffer' = <<>>
          /\ ~flushTimer']_vars

\* C27: a unit that has an emission queued has dispatchInFlightRef set, and
\* an invocation never replaces a pending state-change or props-change
\* event by a parent-rerender event.
C27_QueuedEmissionKeepsFlag ==
    [][\A t \in Trackers :
         /\ EmitQueued(t)' => hook'[t].dispatchInFlightRef
         /\ (/\ Invoked(t)
             /\ hook[t].pendingInfoRef # Null
             /\ hook[t].pendingInfoRef.reason \in {"state-change", "props-change"})
            => hook'[t].pendingInfoRef.reason # "parent-rerender"]_vars

\* the notifications of a list that show the event with the given id
ShownIn(toasts, id) ==
    {i \in DOMAIN toasts : \E e \in ToastEvents(toasts[i]) : e.id = id}

\* C28: a non-initial event handed to the store while the gate is inactive
\* is appended to the buffer; when the debounce timer fires with the gate
\* inactive, every buffered event is shown by exactly one notification
\* afterwards (listed once in a batch); no event is shown by two
\* notifications, and no buffered event is shown by any.
C28_NoLossNoDuplication ==
    [][/\ \A t \in Trackers :
            (/\ Emitted(t)
             /\ ~renderTracker.suppressToasts
             /\ LastRecorded(renderTracker', componentName[t]).reason # "initial")
            => buffer' = Append(buffer, LastRecorded(renderTracker', componentName[t]))
       /\ (FlushStep /\ ~renderTracker.suppressToasts) =>
            \A i \in DOMAIN buffer :
                /\ Cardinality(ShownIn(toast'.toasts, buffer[i].id)) = 1
                /\ LET new == toast'.toasts[1]
                   IN  new.batchRenders # <<>> =>
                         Cardinality({j \in DOMAIN new.batchRenders :
                                        new.batchRenders[j].id = buffer[i].id}) = 1
       /\ \A e \in UNION {ToastEvents(toast'.toasts[i]) : i \in DOMAIN toast'.toasts} :
            Cardinality(ShownIn(toast'.toasts, e.id)) = 1
       /\ \A i \in DOMAIN buffer' : ShownIn(toast'.toasts, buffer'[i].id) = {}]_vars

\* C28 witness: two notifications show three or more events between them
C28_Witness ==
    /\ Len(toast.toasts) = 2
    /\ Cardinality({e.id : e \in SurfacedEvents}) >= 3
    /\ buffer = <<>>

\* the reset button was pressed in this step
ResetStep == resetAt' # resetAt

\* C26: the reset empties the store's sequence number map and leaves every
\* tracker, meaningfulCountRef included, as it is; every emission, also one
\* after a reset, sets the store's number of the unit's name to the
\* tracker's own count before the emission plus 1.
C26_ClearKeepsTrackerCounts ==
    [][/\ ResetStep =>
            /\ \A n \in Names : renderTracker'.renderCounts[n] = 0
            /\ \A n \in Names : renderTracker'.renderHistory[n] = <<>>
            /\ hook' = hook
       /\ \A t \in Trackers :
            Emitted(t) =>
              renderTracker'.renderCounts[componentName[t]] =
                hook[t].meaningfulCountRef + 1]_vars

\* C26 witness: unit 3 emitted once before the reset and once after it; the
\* history of its name holds the one event recorded since the reset, and the
\* store's number of the name is 2
C26_Witness ==
    /\ resetAt # NoReset
    /\ hook[3].meaningfulCountRef = 2
    /\ Len(renderTracker.renderHistory["B"]) = 1
    /\ renderTracker.renderCounts["B"] = 2

\* C25: a non-initial invocation of a unit whose re-render was forced
\* produces an event with the reason force-update, whatever changed in its
\* props or state.
C25_ForcedTakesPrecedence ==
    (call.fn = "forcedRender" /\ call.forced) =>
        call.result.reason = "force-update"

\* the last of the three nested timers of a wrapper ran in this step
WrapperEnds ==
    /\ timers # <<>>
    /\ Head(timers) = EndTask(3)
    /\ timers' = Tail(timers)

\* the 100 ms timer of the page-change effect ran in this step
PageWindowEnds == page.timer /\ ~page'.timer /\ mounted'

\* a window of a wrapper is open: one of its nested timers is queued
WrapperWindowOpen == \E i \in DOMAIN timers : timers[i].kind = "end"

\* C24: the gate is one boolean: every begin, by a wrapper or by the
\* page-change effect, leaves it active, and every end leaves it inactive,
\* also while the window of another caller is still open.
C24_GateIsSingleBoolean ==
    [][/\ renderTracker'.suppressToasts \in BOOLEAN
       /\ begins' # begins => renderTracker'.suppressToasts
       /\ (WrapperEnds \/ PageWindowEnds) => ~renderTracker'.suppressToasts]_vars

\* C24 witness: the page-change effect and a wrapper both began, the
\* wrapper's end ran, and the gate is inactive while the 100 ms window of
\* the page-change effect is still open
C24_Witness ==
    /\ begins = 2
    /\ page.runs = 1
    /\ page.timer
    /\ ~WrapperWindowOpen
    /\ ~renderTracker.suppressToasts

\* the emission timer of a destroyed instance ran in this step
OrphanFires ==
    /\ timers # <<>>
    /\ Head(timers).kind = "orphan"
    /\ timers' = Tail(timers)

\* C29: after a unit was torn down no timer of it hands an event to the
\* store: the store, the listener's buffer and its timer are never changed
\* by the emission timer of a destroyed instance.
C29_NoEmissionAfterTeardown ==
    [][OrphanFires =>
         /\ renderTracker' = renderTracker
         /\ buffer' = buffer
         /\ flushTimer' = flushTimer]_vars

\* C30: while the gate is active an end is on its way: a nested timer of a
\* wrapper is queued or the 100 ms timer of the page-change effect is armed.
C30_ActiveGateHasEndPending ==
    renderTracker.suppressToasts => (WrapperWindowOpen \/ page.timer)
====
